---- MODULE Spec2Model ----
(***************************************************************************)
(* A model of the ClickUp export tool: the per-user fetch loops, the       *)
(* result collections they fill, and the summaries computed from them.     *)
(*                                                                         *)
(* Hours are exact rationals held as integers scaled by MsPerHour, so an   *)
(* hours value h is held as h * 3 600 000 and "rounded to 2 decimals"      *)
(* means "a multiple of Hundredth".  Python dicts are association lists    *)
(* (sequences of <<key, value>> with distinct keys, in insertion order).   *)
(* A field that is either the placeholder '' or a number is held as <<>>   *)
(* or <<n>>.                                                               *)
(*                                                                         *)
(* TimeEntryManager reads workspace_name, list_name, task_name and         *)
(* duration_hours from each entry; the entries of the model carry the      *)
(* attributes as the manager reads them (the TimeEntry dataclass of        *)
(* models/time_entry.py names the first two delivery_name and              *)
(* workpackage_name).                                                      *)
(*                                                                         *)
(* A Python str that is taken apart (a token that is stripped, a name      *)
(* that becomes a sheet name) is the sequence of its characters.  A field  *)
(* that is None or an object is held as None or Val(object).               *)
(*                                                                         *)
(* Spec is the whole program, from construction on, in one of the          *)
(* Environments.  SheetSpec drives the ExcelExporter alone, over           *)
(* collections keyed by the names of NamePool.  CallSpec calls the         *)
(* functions of the legacy models and widgets that no handler of Spec      *)
(* reaches, on arguments drawn from small sets.                            *)
(***************************************************************************)
EXTENDS Integers, Sequences, FiniteSets, TLC

VARIABLES
    app,                \* which front end runs: "mgr" (MainWindow + TimeEntryManager),
                        \* "tt" (TimeTrackerController) or "tr" (TaskReporterController)
    pc,                 \* "idle", or "fetching" while a fetch loop is between two iterations
    selected,           \* the users (folders) the running or last fetch loop iterates over
    i,                  \* 1-based index of the next loop iteration
    all_user_entries,   \* TimeEntryManager.all_user_entries
    time_entries,       \* TimeTrackerController.time_entries
    tasks_by_folder,    \* TaskReporterController.tasks_by_folder
    attempts,           \* history: the requests the running or last loop has issued
                        \* (and the workspace a user's request names; for a folder, the
                        \* answers of its lists and the line logged)
    exported,           \* the rows computed by the last export, or NoExport
    by_user,            \* the time_entries_by_user argument of an ExcelExporter driven on
                        \* its own (SheetSpec), its keys spelled as character sequences
    client,             \* ClickUpClient: auth_token and the Authorization header
    workspaces,         \* self.workspaces
    spaces,             \* TaskReporterController.spaces
    selected_workspace, \* self.selected_workspace: None or Val(workspace)
    selected_space,     \* TaskReporterController.selected_space: None or Val(space)
    dialog,             \* the error dialog that ended the last handler early, or "none"
    supplied,           \* history: the last non-empty token handed to a connect
    last_request,       \* history: Val(headers) of the last API request sent, or Blank
    env,                \* the run's environment, one of Environments: how much the
                        \* API holds and what the user and the API can do wrong
    call                \* a function called on its own (CallSpec): its name, its
                        \* arguments and, once it has returned, its result; else Blank

\* the session: what connecting and selecting set
session == <<client, workspaces, spaces, selected_workspace, selected_space, supplied>>

vars == <<app, pc, selected, i, all_user_entries, time_entries, tasks_by_folder,
          attempts, exported, by_user, session, dialog, last_request, env, call>>

-----------------------------------------------------------------------------
(* Bounds and inputs *)

\* the most entries (tasks) all responses of one fetch loop carry together
MaxEntries == 3

\* every name of the model, in Python's string order ('' first, upper case
\* before lower case)
LexOrder == <<"", "A", "B", "Unknown", "ann">>

\* the members of the selected workspace; a member without a username is
\* given the username 'Unknown', so two members can share one
Members == << [id |-> "u1", username |-> "ann",     email |-> "ann@x"],
              [id |-> "u2", username |-> "Unknown", email |-> ""],
              [id |-> "u3", username |-> "Unknown", email |-> "u3@x"] >>

\* the time entries the API can return
EntryPool ==
    { [workspace_name |-> "A", list_name |-> "A", task_name |-> "A", duration_ms |-> 18000],
      [workspace_name |-> "A", list_name |-> "A", task_name |-> "A", duration_ms |-> 54000],
      [workspace_name |-> "A", list_name |-> "A", task_name |-> "B", duration_ms |-> 18000],
      [workspace_name |-> "A", list_name |-> "",  task_name |-> "A", duration_ms |-> 90000],
      [workspace_name |-> "B", list_name |-> "A", task_name |-> "A", duration_ms |-> -18000] }

\* the entries the API holds when the session is the adverse one
MinEntries == 1

\* A run is made in one of three environments: one where the API holds up to
\* MaxEntries entries and connecting and validating go well; one where
\* the API holds up to MinEntries and everything about the session can go
\* wrong: empty or changed tokens, failing or empty list requests, a second
\* workspace, fetches requested too early or with invalid input; and one
\* where the API holds up to MinEntries, the task request of a list of a
\* folder can fail and the calls of the exporter can raise
Environments ==
    { [data |-> MaxEntries, adverse |-> FALSE, lists_fail |-> FALSE, export_fails |-> FALSE,
       token_entries |-> { <<"t">> }],
      [data |-> MinEntries, adverse |-> TRUE, lists_fail |-> FALSE, export_fails |-> FALSE,
       token_entries |-> { <<>>, <<" ">>, <<"t">>, <<" ", "u">> }],
      [data |-> MinEntries, adverse |-> FALSE, lists_fail |-> TRUE, export_fails |-> TRUE,
       token_entries |-> { <<"t">> }] }

\* the sequences over S of length at most n
SeqsUpTo(S, n) == UNION { [1..k -> S] : k \in 0..n }

\* the listbox selections: the non-empty sublists of a list, in list order
RECURSIVE SubSeq_(_, _, _)
SubSeq_(s, I, k) ==
    IF k > Len(s) THEN <<>>
    ELSE (IF k \in I THEN <<s[k]>> ELSE <<>>) \o SubSeq_(s, I, k + 1)
Selections(s) == { SubSeq_(s, I, 1) : I \in (SUBSET (1..Len(s))) \ {{}} }

-----------------------------------------------------------------------------
(* Python helpers *)

Blank == <<>>
Val(n) == <<n>>

RECURSIVE SumSeq(_)
SumSeq(s) == IF s = <<>> THEN 0 ELSE Head(s) + SumSeq(Tail(s))

Range(s) == { s[k] : k \in 1..Len(s) }

\* dict as an association list
EmptyDict == <<>>
DictKeys(d) == { d[k][1] : k \in 1..Len(d) }
DictIndex(d, key) == CHOOSE k \in 1..Len(d) : d[k][1] = key
DictGet(d, key) == d[DictIndex(d, key)][2]
DictSet(d, key, value) ==
    IF key \in DictKeys(d)
    THEN [d EXCEPT ![DictIndex(d, key)] = <<key, value>>]
    ELSE Append(d, <<key, value>>)

\* sorted(keys): the names of S in string order
sortedReversed(S) ==
    LET n == Len(LexOrder)
        rev == [k \in 1..n |-> LexOrder[n + 1 - k]]
    IN  SelectSeq(rev, LAMBDA x : x \in S)
sorted(S) == SelectSeq(LexOrder, LAMBDA x : x \in S)

\* round(x, 2) of Python on an hours value.  A value exactly half way between
\* two hundredths is rounded as its nearest double is: TieRoundsUp holds the
\* k for which round((k + 0.5) / 100, 2) is (k + 1) / 100.
MsPerHour == 3600000
Hundredth == MsPerHour \div 100
TieRoundsUp == {0, 2, 3, 5, 6, 8, 9, 11, 13, 16, 19, 22, 25, 26, 27, 31, 32, 33,
                37, 38, 39, 40, 44, 45, 46, 50, 51, 52, 53, 54, 55}
RoundNonNeg(x) ==
    LET k == x \div Hundredth
        r == x % Hundredth
    IN  IF 2 * r > Hundredth \/ (2 * r = Hundredth /\ k \in TieRoundsUp)
        THEN (k + 1) * Hundredth
        ELSE k * Hundredth
Round2(x) == IF x < 0 THEN 0 - RoundNonNeg(0 - x) ELSE RoundNonNeg(x)

\* TimeEntry.duration_hours
duration_hours_unrounded(entry) == entry.duration_ms
duration_hours(entry) == Round2(entry.duration_ms)

-----------------------------------------------------------------------------
(* TimeEntryManager (core/time_entry_manager.py) *)

Row(level, workspace, list_name, task, member, hours, entries) ==
    [Level |-> level, Workspace |-> workspace, List |-> list_name, Task |-> task,
     Member |-> member, Hours |-> hours, Entries |-> entries]

EntriesOf(aue, username) == DictGet(aue, username).entries

\* the entries of one user under one workspace / list / task
Matching(aue, username, workspace, list_name, task) ==
    SelectSeq(EntriesOf(aue, username),
              LAMBDA e : /\ e.workspace_name = workspace
                         /\ e.list_name = list_name
                         /\ e.task_name = task)

HoursOf(entries) == [k \in 1..Len(entries) |-> duration_hours(entries[k])]

\* the nested defaultdict built by the first loop of create_hierarchical_summary,
\* as a function of the <<workspace, list, task, username>> paths it holds
HeldPaths(aue) ==
    UNION { { <<e.workspace_name, e.list_name, e.task_name, u>> :
                e \in Range(EntriesOf(aue, u)) } : u \in DictKeys(aue) }
hierarchyAssign(aue) ==
    [p \in HeldPaths(aue) |->
        LET m == HoursOf(Matching(aue, p[4], p[1], p[2], p[3])) IN m[Len(m)]]
hierarchy(aue) ==
    [p \in HeldPaths(aue) |-> SumSeq(HoursOf(Matching(aue, p[4], p[1], p[2], p[3])))]

\* a read of the defaultdict(float): 0.0 for a path it does not hold
HGet(h, p) == IF p \in DOMAIN h THEN h[p] ELSE 0

\* hierarchy[workspace][list][task].keys()
member_names_all(aue, h, w, l, t) == DictKeys(aue)
member_names(aue, h, w, l, t) ==
    { p[4] : p \in { q \in DOMAIN h : q[1] = w /\ q[2] = l /\ q[3] = t } }

count_entries_any_task(aue, member_name, workspace, list_name, task) ==
    IF member_name \notin DictKeys(aue) THEN 0
    ELSE Len(SelectSeq(EntriesOf(aue, member_name),
                       LAMBDA e : e.workspace_name = workspace /\ e.list_name = list_name))
count_entries(aue, member_name, workspace, list_name, task) ==
    IF member_name \notin DictKeys(aue) THEN 0
    ELSE Len(Matching(aue, member_name, workspace, list_name, task))

\* entries is None (<<>>) or <<n>>
None == <<>>
update_summary_totals_entries_only(summary_data, level, workspace, list_name, task, hours, entries) ==
    LET hit == { k \in 1..Len(summary_data) :
                   /\ summary_data[k].Level = level
                   /\ summary_data[k].Workspace = workspace
                   /\ summary_data[k].List = list_name
                   /\ summary_data[k].Task = task }
    IN  IF hit = {} \/ entries = None THEN summary_data
        ELSE LET k == CHOOSE x \in hit : \A y \in hit : y <= x
             IN  [summary_data EXCEPT
                    ![k] = [@ EXCEPT !.Hours = Val(Round2(hours)), !.Entries = entries]]
update_summary_totals_any_level(summary_data, level, workspace, list_name, task, hours, entries) ==
    LET hit == { k \in 1..Len(summary_data) :
                   /\ summary_data[k].Workspace = workspace
                   /\ summary_data[k].List = list_name
                   /\ summary_data[k].Task = task }
    IN  [k \in 1..Len(summary_data) |->
            IF k \in hit
            THEN [summary_data[k] EXCEPT !.Hours = Val(Round2(hours)),
                                         !.Entries = IF entries # None THEN entries ELSE @]
            ELSE summary_data[k]]
update_summary_totals(summary_data, level, workspace, list_name, task, hours, entries) ==
    LET hit == { k \in 1..Len(summary_data) :
                   /\ summary_data[k].Level = level
                   /\ summary_data[k].Workspace = workspace
                   /\ summary_data[k].List = list_name
                   /\ summary_data[k].Task = task }
    IN  IF hit = {} THEN summary_data
        ELSE LET k == CHOOSE x \in hit : \A y \in hit : y <= x
             IN  [summary_data EXCEPT
                    ![k] = [@ EXCEPT !.Hours = Val(Round2(hours)),
                                     !.Entries = IF entries # None THEN entries ELSE @]]

\* the loop over the members of one task: acc is [data, task_total, task_entries]
RECURSIVE MemberLoop(_, _, _, _, _, _, _)
MemberLoop(aue, h, w, l, t, names, acc) ==
    IF names = <<>> THEN acc
    ELSE LET member_name    == Head(names)
             member_hours   == HGet(h, <<w, l, t, member_name>>)
             member_entries == count_entries(aue, member_name, w, l, t)
         IN  MemberLoop(aue, h, w, l, t, Tail(names),
                 [data |-> Append(acc.data,
                                  Row("MEMBER", w, l, t, member_name,
                                      Val(Round2(member_hours)), Val(member_entries))),
                  task_total   |-> acc.task_total + member_hours,
                  task_entries |-> acc.task_entries + member_entries])

\* one call of _update_summary_totals: its summary_data before and after, and
\* the level and names it was given
UpdateCall(before, after, level, workspace, list_name, task) ==
    [before |-> before, after |-> after, level |-> level,
     workspace |-> workspace, list_name |-> list_name, task |-> task]

\* the loop over the tasks of one list: acc is [data, list_total], with the
\* calls of _update_summary_totals made so far (calls)
RECURSIVE TaskLoop(_, _, _, _, _, _)
TaskLoop(aue, h, w, l, names, acc) ==
    IF names = <<>> THEN acc
    ELSE LET t  == Head(names)
             r  == MemberLoop(aue, h, w, l, t, sorted(member_names(aue, h, w, l, t)),
                       [data |-> Append(acc.data, Row("TASK", w, l, t, "", Blank, Blank)),
                        task_total |-> 0, task_entries |-> 0])
             updated == update_summary_totals(r.data, "TASK", w, l, t,
                                              r.task_total, Val(r.task_entries))
         IN  TaskLoop(aue, h, w, l, Tail(names),
                 [data |-> updated,
                  list_total |-> acc.list_total + r.task_total,
                  calls |-> Append(acc.calls, UpdateCall(r.data, updated, "TASK", w, l, t))])

\* the loop over the lists of one workspace: acc is [data, workspace_total, calls]
RECURSIVE ListLoop(_, _, _, _, _)
ListLoop(aue, h, w, names, acc) ==
    IF names = <<>> THEN acc
    ELSE LET l  == Head(names)
             ts == { p[3] : p \in { q \in DOMAIN h : q[1] = w /\ q[2] = l } }
             r  == TaskLoop(aue, h, w, l, sorted(ts),
                       [data |-> Append(acc.data, Row("LIST", w, l, "", "", Blank, Blank)),
                        list_total |-> 0, calls |-> acc.calls])
             updated == update_summary_totals(r.data, "LIST", w, l, "", r.list_total, None)
         IN  ListLoop(aue, h, w, Tail(names),
                 [data |-> updated,
                  workspace_total |-> acc.workspace_total + r.list_total,
                  calls |-> Append(r.calls, UpdateCall(r.data, updated, "LIST", w, l, ""))])

\* the loop over the workspaces: acc is [data, grand_total_hours, calls]
RECURSIVE WorkspaceLoop(_, _, _, _)
WorkspaceLoop(aue, h, names, acc) ==
    IF names = <<>> THEN acc
    ELSE LET w  == Head(names)
             ls == { p[2] : p \in { q \in DOMAIN h : q[1] = w } }
             r  == ListLoop(aue, h, w, sorted(ls),
                       [data |-> Append(acc.data, Row("WORKSPACE", w, "", "", "", Blank, Blank)),
                        workspace_total |-> 0, calls |-> acc.calls])
             updated == update_summary_totals(r.data, "WORKSPACE", w, "", "",
                                              r.workspace_total, None)
         IN  WorkspaceLoop(aue, h, Tail(names),
                 [data |-> updated,
                  grand_total_hours |-> acc.grand_total_hours + r.workspace_total,
                  calls |-> Append(r.calls, UpdateCall(r.data, updated, "WORKSPACE", w, "", ""))])

\* sum(len(data['entries']) for data in self.all_user_entries.values())
total_entries_users(aue) == Len(aue)
total_entries(aue) == SumSeq([k \in 1..Len(aue) |-> Len(aue[k][2].entries)])

create_hierarchical_summary(aue) ==
    LET h  == hierarchy(aue)
        ws == { p[1] : p \in DOMAIN h }
        r  == WorkspaceLoop(aue, h, sorted(ws),
                            [data |-> <<>>, grand_total_hours |-> 0, calls |-> <<>>])
    IN  Append(r.data,
               Row("GRAND TOTAL", "", "", "", "",
                   Val(Round2(r.grand_total_hours)), Val(total_entries(aue))))

\* the calls of _update_summary_totals create_hierarchical_summary makes, in
\* the order it makes them
update_calls(aue) ==
    LET h  == hierarchy(aue)
        ws == { p[1] : p \in DOMAIN h }
    IN  WorkspaceLoop(aue, h, sorted(ws),
                      [data |-> <<>>, grand_total_hours |-> 0, calls |-> <<>>]).calls

\* get_user_summary: one row per key of all_user_entries, then the TOTAL row
UserSummaryRow(username, data) ==
    [PersonName   |-> username,
     TotalEntries |-> Len(data.entries),
     TotalHours   |-> SumSeq(HoursOf(data.entries)),
     Email        |-> data.user_info.email]
get_user_summary_skip_empty(aue) ==
    LET held == SelectSeq(aue, LAMBDA kv : kv[2].entries # <<>>)
        rows == [k \in 1..Len(held) |-> UserSummaryRow(held[k][1], held[k][2])]
    IN  Append(rows,
               [PersonName   |-> "TOTAL",
                TotalEntries |-> SumSeq([k \in 1..Len(rows) |-> rows[k].TotalEntries]),
                TotalHours   |-> Round2(SumSeq([k \in 1..Len(rows) |-> rows[k].TotalHours])),
                Email        |-> ""])
get_user_summary(aue) ==
    LET rows == [k \in 1..Len(aue) |-> UserSummaryRow(aue[k][1], aue[k][2])]
    IN  Append(rows,
               [PersonName   |-> "TOTAL",
                TotalEntries |-> SumSeq([k \in 1..Len(rows) |-> rows[k].TotalEntries]),
                TotalHours   |-> Round2(SumSeq([k \in 1..Len(rows) |-> rows[k].TotalHours])),
                Email        |-> ""])

-----------------------------------------------------------------------------
(* MainWindow + TimeEntryManager (ui/main_window.py, core/time_entry_manager.py) *)

NoExport == [kind |-> "none"]

\* the entries the responses issued so far carry together
Used(att) == SumSeq([k \in 1..Len(att) |-> Len(att[k].entries)])

\* what fetch_entries_for_users stores for a user whose request succeeded / raised
StoreEntries(aue, user, entries) ==
    DictSet(aue, user.username, [user_info |-> user, entries |-> entries, error |-> FALSE])
StoreFailureDropped(aue, user) == aue
StoreFailure(aue, user) ==
    DictSet(aue, user.username, [user_info |-> user, entries |-> <<>>, error |-> TRUE])

\* MainWindow.fetch_time_entries past its validation, up to the first iteration
\* of the loop of fetch_entries_for_users
MgrFetchBegin ==
    /\ app = "mgr" /\ pc = "idle"
    /\ client.auth_token # <<>> /\ selected_workspace # None
    /\ \E sel \in Selections(selected_workspace[1].members) :
          /\ selected' = sel
          /\ all_user_entries' = EmptyDict
          /\ i' = 1
          /\ attempts' = <<>>
          /\ exported' = NoExport
          /\ pc' = "fetching"
    /\ dialog' = "none"
    /\ UNCHANGED last_request
    /\ UNCHANGED <<env, call, by_user, session, app, time_entries, tasks_by_folder>>

\* one iteration of the loop whose get_time_entries returns
MgrFetchOk ==
    /\ app = "mgr" /\ pc = "fetching"
    /\ \E entries \in SeqsUpTo(EntryPool, env.data - Used(attempts)) :
          /\ all_user_entries' = StoreEntries(all_user_entries, selected[i], entries)
          /\ attempts' = Append(attempts, [item |-> selected[i], ok |-> TRUE, entries |-> entries])
    /\ i' = i + 1
    /\ pc' = IF i = Len(selected) THEN "idle" ELSE "fetching"
    /\ last_request' = Val(client.headers)
    /\ UNCHANGED dialog
    /\ UNCHANGED <<env, call, by_user, session, app, selected, time_entries, tasks_by_folder, exported>>

\* one iteration of the loop whose get_time_entries raises
MgrFetchFailAbort ==
    /\ app = "mgr" /\ pc = "fetching"
    /\ all_user_entries' = StoreFailure(all_user_entries, selected[i])
    /\ attempts' = Append(attempts, [item |-> selected[i], ok |-> FALSE, entries |-> <<>>])
    /\ i' = i + 1
    /\ pc' = "idle"
    /\ last_request' = Val(client.headers)
    /\ UNCHANGED dialog
    /\ UNCHANGED <<env, call, by_user, session, app, selected, time_entries, tasks_by_folder, exported>>
MgrFetchFail ==
    /\ app = "mgr" /\ pc = "fetching"
    /\ all_user_entries' = StoreFailure(all_user_entries, selected[i])
    /\ attempts' = Append(attempts, [item |-> selected[i], ok |-> FALSE, entries |-> <<>>])
    /\ i' = i + 1
    /\ pc' = IF i = Len(selected) THEN "idle" ELSE "fetching"
    /\ last_request' = Val(client.headers)
    /\ UNCHANGED dialog
    /\ UNCHANGED <<env, call, by_user, session, app, selected, time_entries, tasks_by_folder, exported>>

\* MainWindow.export_to_excel
MgrExport ==
    /\ app = "mgr" /\ pc = "idle"
    /\ exported' =
          IF all_user_entries = EmptyDict
          THEN [kind |-> "error"]
          ELSE [kind  |-> "workbook",
                hierarchical_summary |-> create_hierarchical_summary(all_user_entries),
                user_summary |-> get_user_summary(all_user_entries)]
    /\ dialog' = IF all_user_entries = EmptyDict THEN "no_data" ELSE "none"
    /\ UNCHANGED last_request
    /\ UNCHANGED <<env, call, by_user, session, app, pc, selected, i, all_user_entries, time_entries,
                   tasks_by_folder, attempts>>

-----------------------------------------------------------------------------
(* TimeTrackerController (controllers/time_tracker_controller.py) with the
   client of models/clickup_client.py and the exporter of utils/excel_exporter.py *)

\* ClickUpClient.get_time_entries: the TimeEntry built from one item of the response
ParseTimeEntry(item) ==
    [username  |-> "",
     email     |-> "",
     workspace |-> item.workspace_name,
     list_name |-> item.list_name,
     task_name |-> item.task_name,
     hours     |-> Round2(item.duration_ms)]
ParseTimeEntries(items) == [k \in 1..Len(items) |-> ParseTimeEntry(items[k])]

\* fetch_time_entries: "Set user info for each entry"
SetUserInfo(entries, user) ==
    [k \in 1..Len(entries) |->
        [entries[k] EXCEPT !.username = user.username, !.email = user.email]]

\* what the loop of fetch_time_entries stores for a user whose request
\* succeeded / raised
TtStoreEntries(te, user, entries) == DictSet(te, user.username, SetUserInfo(entries, user))
TtStoreFailure(te, user) == DictSet(te, user.username, <<>>)

\* fetch_time_entries past its validation, up to the first iteration of its loop
TtFetchBeginKeeping ==
    /\ app = "tt" /\ pc = "idle"
    /\ selected_workspace # None
    /\ \E sel \in Selections(selected_workspace[1].members) :
          /\ selected' = sel
          /\ time_entries' = time_entries
          /\ i' = 1
          /\ attempts' = <<>>
          /\ exported' = NoExport
          /\ pc' = "fetching"
    /\ dialog' = "none"
    /\ UNCHANGED last_request
    /\ UNCHANGED <<env, call, by_user, session, app, all_user_entries, tasks_by_folder>>
TtFetchBegin ==
    /\ app = "tt" /\ pc = "idle"
    /\ selected_workspace # None
    /\ \E sel \in Selections(selected_workspace[1].members) :
          /\ selected' = sel
          /\ time_entries' = EmptyDict
          /\ i' = 1
          /\ attempts' = <<>>
          /\ exported' = NoExport
          /\ pc' = "fetching"
    /\ dialog' = "none"
    /\ UNCHANGED last_request
    /\ UNCHANGED <<env, call, by_user, session, app, all_user_entries, tasks_by_folder>>

\* one iteration of the loop whose get_time_entries returns
TtFetchOk ==
    /\ app = "tt" /\ pc = "fetching"
    /\ \E items \in SeqsUpTo(EntryPool, env.data - Used(attempts)) :
          /\ time_entries' = TtStoreEntries(time_entries, selected[i], ParseTimeEntries(items))
          /\ attempts' = Append(attempts, [item |-> selected[i], ok |-> TRUE, entries |-> items,
                                           team |-> selected_workspace[1].id])
    /\ i' = i + 1
    /\ pc' = IF i = Len(selected) THEN "idle" ELSE "fetching"
    /\ last_request' = Val(client.headers)
    /\ UNCHANGED dialog
    /\ UNCHANGED <<env, call, by_user, session, app, selected, all_user_entries, tasks_by_folder, exported>>

\* one iteration of the loop whose get_time_entries raises
TtFetchFail ==
    /\ app = "tt" /\ pc = "fetching"
    /\ time_entries' = TtStoreFailure(time_entries, selected[i])
    /\ attempts' = Append(attempts, [item |-> selected[i], ok |-> FALSE, entries |-> <<>>,
                                     team |-> selected_workspace[1].id])
    /\ i' = i + 1
    /\ pc' = IF i = Len(selected) THEN "idle" ELSE "fetching"
    /\ last_request' = Val(client.headers)
    /\ UNCHANGED dialog
    /\ UNCHANGED <<env, call, by_user, session, app, selected, all_user_entries, tasks_by_folder, exported>>

\* ExcelExporter.create_time_summary_sheet: the rows written to the sheet 'Summary'
TimeSummaryRow(username, entries) ==
    [User         |-> username,
     Email        |-> IF entries # <<>> THEN entries[1].email ELSE "",
     TotalEntries |-> Len(entries),
     TotalHours   |-> Round2(SumSeq([k \in 1..Len(entries) |-> entries[k].hours]))]
create_time_summary_sheet(te) ==
    LET rows == [k \in 1..Len(te) |-> TimeSummaryRow(te[k][1], te[k][2])]
        all_entries == SumSeq([k \in 1..Len(te) |-> Len(te[k][2])])
        all_hours == SumSeq([k \in 1..Len(te) |->
                        SumSeq([j \in 1..Len(te[k][2]) |-> te[k][2][j].hours])])
    IN  Append(rows, [User |-> "TOTAL", Email |-> "",
                      TotalEntries |-> all_entries,
                      TotalHours |-> Round2(all_hours)])

-----------------------------------------------------------------------------
(* ExcelExporter (utils/excel_exporter.py).  A Python str is the sequence of
   its characters. *)

MAX_SHEET_NAME_LENGTH == 31

\* the spelling of the names of the model
Chars(s) ==
    CASE s = ""        -> <<>>
      [] s = "A"       -> <<"A">>
      [] s = "B"       -> <<"B">>
      [] s = "ann"     -> <<"a", "n", "n">>
      [] s = "Unknown" -> <<"U", "n", "k", "n", "o", "w", "n">>
      [] s = "w1"      -> <<"w", "1">>
      [] s = "w2"      -> <<"w", "2">>

SummaryTitle == <<"S", "u", "m", "m", "a", "r", "y">>
AllDataTitle == <<"A", "l", "l", " ", "D", "a", "t", "a">>

\* str.replace(char, '_') for a one-character char
replace(str, char) == [k \in 1..Len(str) |-> IF str[k] = char THEN "_" ELSE str[k]]

invalid_chars_short == <<"\\", "/", "*", "?", ":", "[">>
invalid_chars == <<"\\", "/", "*", "?", ":", "[", "]">>

RECURSIVE replace_each(_, _)
replace_each(str, chars) ==
    IF chars = <<>> THEN str
    ELSE replace_each(replace(str, Head(chars)), Tail(chars))

\* ExcelExporter._make_safe_sheet_name
make_safe_sheet_name_cut(name) ==
    LET safe_name == replace_each(name, invalid_chars)
    IN  IF Len(safe_name) > MAX_SHEET_NAME_LENGTH
        THEN SubSeq(safe_name, 1, MAX_SHEET_NAME_LENGTH) \o <<".", ".", ".">>
        ELSE safe_name
make_safe_sheet_name(name) ==
    LET safe_name == replace_each(name, invalid_chars)
    IN  IF Len(safe_name) > MAX_SHEET_NAME_LENGTH
        THEN SubSeq(safe_name, 1, MAX_SHEET_NAME_LENGTH - 3) \o <<".", ".", ".">>
        ELSE safe_name

\* DataFrame.to_excel(self.writer, sheet_name=title): a title the writer
\* already holds is written into again, any other title opens a new sheet
to_excel(sheets, w) ==
    IF w.title \in DictKeys(sheets)
    THEN DictSet(sheets, w.title, Append(DictGet(sheets, w.title), w))
    ELSE DictSet(sheets, w.title, <<w>>)

RECURSIVE to_excel_all(_, _)
to_excel_all(sheets, ws) ==
    IF ws = <<>> THEN sheets ELSE to_excel_all(to_excel(sheets, Head(ws)), Tail(ws))

\* the to_excel calls of create_time_summary_sheet, create_time_data_sheet
\* and create_user_time_sheets, in the order export_excel makes them
summary_write == [title |-> SummaryTitle, by |-> "summary", key |-> <<>>]
time_data_writes_always(by) == << [title |-> AllDataTitle, by |-> "all_data", key |-> <<>>] >>
time_data_writes(by) ==
    IF \E k \in 1..Len(by) : by[k][2] # <<>>
    THEN << [title |-> AllDataTitle, by |-> "all_data", key |-> <<>>] >>
    ELSE <<>>
user_time_writes(by) ==
    [k \in 1..Len(by) |->
        [title |-> make_safe_sheet_name(by[k][1]), by |-> "user", key |-> by[k][1]]]
time_writes(by) == <<summary_write>> \o time_data_writes(by) \o user_time_writes(by)

\* "with ExcelExporter(file_path) as exporter:" around the calls ws, of which
\* the fail-th raises (none when fail = 0); __exit__ closes the writer either way
with_exporter(ws, fail) ==
    LET done == IF fail = 0 THEN ws ELSE SubSeq(ws, 1, fail - 1)
    IN  [kind    |-> IF fail = 0 THEN "workbook" ELSE "failed",
         written |-> done,
         sheets  |-> to_excel_all(EmptyDict, done),
         closed  |-> TRUE]

\* the exporter calls that can raise: any of ws, or none
FailPoints(ws) == IF env.export_fails THEN 0..Len(ws) ELSE {0}

\* TimeTrackerController.export_excel
\* (a cancelled file dialog leaves everything as it is)
Spelled(te) == [k \in 1..Len(te) |-> <<Chars(te[k][1]), te[k][2]>>]
TtExport ==
    /\ app = "tt" /\ pc = "idle"
    /\ IF time_entries = EmptyDict
       THEN exported' = [kind |-> "error"]
       ELSE \E fail \in FailPoints(time_writes(Spelled(time_entries))) :
               exported' =
                  IF fail = 0
                  THEN with_exporter(time_writes(Spelled(time_entries)), 0)
                          @@ [Summary |-> create_time_summary_sheet(time_entries)]
                  ELSE with_exporter(time_writes(Spelled(time_entries)), fail)
    /\ dialog' = IF time_entries = EmptyDict THEN "no_data" ELSE "none"
    /\ UNCHANGED last_request
    /\ UNCHANGED <<env, call, by_user, session, app, pc, selected, i, all_user_entries, time_entries,
                   tasks_by_folder, attempts>>

-----------------------------------------------------------------------------
(* TaskReporterController (controllers/task_reporter_controller.py) *)

\* the folders of the selected space; two folders can share a name
Folders == << [id |-> "f1", name |-> "A"],
              [id |-> "f2", name |-> "B"],
              [id |-> "f3", name |-> "A"] >>

\* the tasks the API can return for the lists of a folder
TaskPool ==
    { [name |-> "A", list_name |-> "A", time_spent |-> 18000],
      [name |-> "B", list_name |-> "A", time_spent |-> 54000],
      [name |-> "A", list_name |-> "B", time_spent |-> 0] }

\* Task.hours_spent
hours_spent(task) == IF task.time_spent > 0 THEN Round2(task.time_spent) ELSE 0

\* fetch_all_tasks: "Set folder info for each task"
SetFolderInfo(tasks, folder) ==
    [k \in 1..Len(tasks) |->
        [name |-> tasks[k].name, list_name |-> tasks[k].list_name,
         time_spent |-> tasks[k].time_spent,
         folder_name |-> folder.name, folder_id |-> folder.id]]

TrStoreTasks(tbf, folder, tasks) == DictSet(tbf, folder.name, SetFolderInfo(tasks, folder))
TrStoreFailure(tbf, folder) == DictSet(tbf, folder.name, <<>>)

\* ClickUpClient.get_tasks_in_folder past its list request.  Every folder has
\* the lists A and B; the task request of a list answers with tasks of that
\* list or, where the environment lets it, fails
FolderLists == { <<"A", "B">> }
TasksIn(list_name) == { t \in TaskPool : t.list_name = list_name }
ListAnswers(list_name, n) ==
    { [name |-> list_name, ok |-> TRUE, tasks |-> ts] : ts \in SeqsUpTo(TasksIn(list_name), n) }
    \cup (IF env.lists_fail THEN { [name |-> list_name, ok |-> FALSE, tasks |-> <<>>] }
          ELSE {})
RECURSIVE FolderAnswersOf(_, _)
FolderAnswersOf(lists, n) ==
    IF lists = <<>> THEN { <<>> }
    ELSE UNION { { <<a>> \o rest : rest \in FolderAnswersOf(Tail(lists), n - Len(a.tasks)) }
                 : a \in ListAnswers(Head(lists), n) }
FolderAnswers(n) == UNION { FolderAnswersOf(lists, n) : lists \in FolderLists }

\* the loop of get_tasks_in_folder over the lists: the tasks of a list whose
\* task request failed are left out, without a word
RECURSIVE get_tasks_in_folder(_)
get_tasks_in_folder(answers) ==
    IF answers = <<>> THEN <<>>
    ELSE (IF Head(answers).ok THEN Head(answers).tasks ELSE <<>>)
             \o get_tasks_in_folder(Tail(answers))

\* what load_folders can leave in self.folders: the folders get_folders
\* returns, or the former ones when the request fails
FolderResponses ==
    Selections(Folders) \cup (IF env.adverse THEN { <<>>, selected } ELSE {})

\* on_space_selected and the load_folders it ends with: self.folders becomes
\* the folders the API returns for the space, or stays when the request fails
TrLoadFolders ==
    /\ app = "tr" /\ pc = "idle"
    /\ spaces # <<>>
    /\ selected_space' = Val(spaces[1])
    /\ \E fs \in FolderResponses : selected' = fs
    /\ last_request' = Val(client.headers)
    /\ dialog' = "none"
    /\ UNCHANGED <<env, call, by_user, app, pc, i, all_user_entries, time_entries, tasks_by_folder,
                   attempts, exported, client, workspaces, spaces, selected_workspace,
                   supplied>>

\* fetch_all_tasks past its validation, up to the first iteration of its loop
TrFetchBegin ==
    /\ app = "tr" /\ pc = "idle"
    /\ selected_space # None
    /\ selected # <<>>
    /\ tasks_by_folder' = EmptyDict
    /\ i' = 1
    /\ attempts' = <<>>
    /\ exported' = NoExport
    /\ pc' = "fetching"
    /\ dialog' = "none"
    /\ UNCHANGED last_request
    /\ UNCHANGED <<env, call, by_user, session, app, selected, all_user_entries, time_entries>>

\* one iteration of the loop whose get_tasks_in_folder returns: the tasks are
\* stored and the line "✓ folder: n tasks" is logged
TrFetchOk ==
    /\ app = "tr" /\ pc = "fetching"
    /\ \E answers \in FolderAnswers(env.data - Used(attempts)) :
          LET tasks == get_tasks_in_folder(answers)
          IN  /\ tasks_by_folder' = TrStoreTasks(tasks_by_folder, selected[i], tasks)
              /\ attempts' = Append(attempts, [item |-> selected[i], ok |-> TRUE,
                                               entries |-> tasks, lists |-> answers,
                                               logged |-> "ok"])
    /\ i' = i + 1
    /\ pc' = IF i = Len(selected) THEN "idle" ELSE "fetching"
    /\ last_request' = Val(client.headers)
    /\ UNCHANGED dialog
    /\ UNCHANGED <<env, call, by_user, session, app, selected, all_user_entries, time_entries, exported>>

\* one iteration of the loop whose get_tasks_in_folder raises (the list
\* request of the folder failed): the line "✗ folder: Error" is logged
TrFetchFail ==
    /\ app = "tr" /\ pc = "fetching"
    /\ tasks_by_folder' = TrStoreFailure(tasks_by_folder, selected[i])
    /\ attempts' = Append(attempts, [item |-> selected[i], ok |-> FALSE, entries |-> <<>>,
                                     lists |-> <<>>, logged |-> "error"])
    /\ i' = i + 1
    /\ pc' = IF i = Len(selected) THEN "idle" ELSE "fetching"
    /\ last_request' = Val(client.headers)
    /\ UNCHANGED dialog
    /\ UNCHANGED <<env, call, by_user, session, app, selected, all_user_entries, time_entries, exported>>

\* ExcelExporter.create_task_summary_sheet: the rows written to the sheet
\* 'Summary', one per folder that holds a task, then the GRAND TOTAL row
TaskSummaryRow(folder_name, tasks) ==
    LET total_time_spent == SumSeq([k \in 1..Len(tasks) |-> tasks[k].time_spent])
    IN  [Folder     |-> folder_name,
         TotalTasks |-> Len(tasks),
         HoursSpent |-> IF total_time_spent # 0 THEN Round2(total_time_spent) ELSE 0,
         ListsCount |-> Cardinality({ tasks[k].list_name : k \in 1..Len(tasks) })]
create_task_summary_sheet(tbf) ==
    LET held == SelectSeq(tbf, LAMBDA kv : kv[2] # <<>>)
        summary_data == [k \in 1..Len(held) |-> TaskSummaryRow(held[k][1], held[k][2])]
    IN  IF summary_data = <<>> THEN <<>>
        ELSE Append(summary_data,
                    [Folder     |-> "GRAND TOTAL",
                     TotalTasks |-> SumSeq([k \in 1..Len(held) |-> summary_data[k].TotalTasks]),
                     HoursSpent |-> SumSeq([k \in 1..Len(held) |-> summary_data[k].HoursSpent]),
                     ListsCount |-> SumSeq([k \in 1..Len(held) |-> summary_data[k].ListsCount])])

\* ExcelExporter.create_folder_task_sheet with include_time_tracking (the
\* default of the option): the totals of the lists in name order, and the
\* hours of the FOLDER TOTAL row, which is written when they are above 0
\* (no task of the model has sprint points)
ListTotals(tasks) ==
    LET names == sorted({ tasks[k].list_name : k \in 1..Len(tasks) })
    IN  [n \in 1..Len(names) |->
            LET list_tasks == SelectSeq(tasks, LAMBDA t : t.list_name = names[n])
            IN  [List  |-> names[n],
                 Tasks |-> Len(list_tasks),
                 list_total_hours |->
                     SumSeq([k \in 1..Len(list_tasks) |-> hours_spent(list_tasks[k])])]]
create_folder_task_sheet(folder_name, tasks) ==
    LET lists == ListTotals(tasks)
        folder_total_hours == SumSeq([n \in 1..Len(lists) |-> lists[n].list_total_hours])
    IN  [Folder      |-> folder_name,
         title       |-> make_safe_sheet_name(Chars(folder_name)),
         Lists       |-> lists,
         FolderTotal |-> IF folder_total_hours > 0 THEN Val(folder_total_hours) ELSE Blank]

\* the to_excel calls of generate_excel_report: the summary, a sheet for
\* every folder that holds a task, and 'Time Tracking' when a task has time
\* spent (no task of the model has an estimate or points)
TimeTrackingTitle == <<"T", "i", "m", "e", " ", "T", "r", "a", "c", "k", "i", "n", "g">>
task_writes(tbf) ==
    LET held == SelectSeq(tbf, LAMBDA kv : kv[2] # <<>>)
    IN  <<summary_write>>
        \o [k \in 1..Len(held) |->
               [title |-> make_safe_sheet_name(Chars(held[k][1])), by |-> "folder",
                key |-> Chars(held[k][1])]]
        \o (IF \E k \in 1..Len(held) : \E j \in 1..Len(held[k][2]) :
                    held[k][2][j].time_spent > 0
            THEN << [title |-> TimeTrackingTitle, by |-> "time_tracking", key |-> <<>>] >>
            ELSE <<>>)
folder_sheets(tbf) ==
    LET held == SelectSeq(tbf, LAMBDA kv : kv[2] # <<>>)
    IN  [k \in 1..Len(held) |-> create_folder_task_sheet(held[k][1], held[k][2])]

\* TaskReporterController.generate_excel_report
\* (a cancelled file dialog leaves everything as it is)
TrExportUnchecked ==
    /\ app = "tr" /\ pc = "idle"
    /\ \E fail \in FailPoints(task_writes(tasks_by_folder)) :
          exported' =
             IF fail = 0
             THEN with_exporter(task_writes(tasks_by_folder), 0)
                     @@ [Summary |-> create_task_summary_sheet(tasks_by_folder),
                         Folders |-> folder_sheets(tasks_by_folder)]
             ELSE with_exporter(task_writes(tasks_by_folder), fail)
    /\ dialog' = "none"
    /\ UNCHANGED last_request
    /\ UNCHANGED <<env, call, by_user, session, app, pc, selected, i, all_user_entries,
                   time_entries, tasks_by_folder, attempts>>
TrExport ==
    /\ app = "tr" /\ pc = "idle"
    /\ IF tasks_by_folder = EmptyDict
       THEN exported' = [kind |-> "error"]
       ELSE \E fail \in FailPoints(task_writes(tasks_by_folder)) :
               exported' =
                  IF fail = 0
                  THEN with_exporter(task_writes(tasks_by_folder), 0)
                          @@ [Summary |-> create_task_summary_sheet(tasks_by_folder),
                              Folders |-> folder_sheets(tasks_by_folder)]
                  ELSE with_exporter(task_writes(tasks_by_folder), fail)
    /\ dialog' = IF tasks_by_folder = EmptyDict THEN "no_data" ELSE "none"
    /\ UNCHANGED last_request
    /\ UNCHANGED <<env, call, by_user, session, app, pc, selected, i, all_user_entries,
                   time_entries, tasks_by_folder, attempts>>

-----------------------------------------------------------------------------
(* Connecting and selecting (ui/main_window.py, controllers/base_controller.py,
   ui/components/auth_section.py, views/base_view.py) *)

\* str.strip()
RECURSIVE lstrip(_)
lstrip(str) == IF str # <<>> /\ Head(str) = " " THEN lstrip(Tail(str)) ELSE str
RECURSIVE rstrip(_)
rstrip(str) ==
    IF str # <<>> /\ str[Len(str)] = " " THEN rstrip(SubSeq(str, 1, Len(str) - 1)) ELSE str
strip(str) == rstrip(lstrip(str))

\* ClickUpClient.__init__ without a token, and set_auth_token
NewClient == [auth_token |-> <<>>, headers |-> [Authorization |-> Blank]]
set_auth_token_stale(c, token) == [auth_token |-> token, headers |-> c.headers]
set_auth_token(c, token) == [auth_token |-> token, headers |-> [Authorization |-> Val(token)]]

\* the workspaces and the space the API knows
W1 == [id |-> "w1", name |-> "A", members |-> Members]
W2 == [id |-> "w2", name |-> "B", members |-> <<Members[1]>>]
S1 == [id |-> "s1", name |-> "A", team_id |-> "w1"]

\* what GET team can answer: an error, or a list of workspaces
TeamResponses ==
    IF env.adverse
    THEN { [ok |-> FALSE, teams |-> <<>>], [ok |-> TRUE, teams |-> <<>>],
           [ok |-> TRUE, teams |-> <<W1, W2>>] }
    ELSE { [ok |-> TRUE, teams |-> <<W1>>] }

\* what get_spaces can give on_connection_success (an error gives no space)
SpaceResponses == IF env.adverse THEN { <<>>, <<S1>> } ELSE { <<S1>> }

\* Workspace.display_name: f"{self.name} (ID:{self.id})"
display_name(workspace) ==
    workspace.name \o <<" ", "(", "I", "D", ":">> \o workspace.id \o <<")">>

\* str.split(sep) for a non-empty sep
StartsWith(str, sep) == Len(sep) <= Len(str) /\ SubSeq(str, 1, Len(sep)) = sep
RECURSIVE split_(_, _, _)
split_(str, sep, part) ==
    IF str = <<>> THEN <<part>>
    ELSE IF StartsWith(str, sep)
         THEN <<part>> \o split_(SubSeq(str, Len(sep) + 1, Len(str)), sep, <<>>)
         ELSE split_(Tail(str), sep, Append(part, Head(str)))
split(str, sep) == split_(str, sep, <<>>)

\* str.rstrip(")")
RECURSIVE rstrip_paren(_)
rstrip_paren(str) ==
    IF str # <<>> /\ str[Len(str)] = ")"
    THEN rstrip_paren(SubSeq(str, 1, Len(str) - 1))
    ELSE str

\* WorkspaceSection._on_workspace_selected and get_selected_workspace_id:
\* selected_text.split("ID: ")[1].rstrip(")"), or the IndexError of the [1]
IndexError == [raised |-> TRUE, value |-> <<>>]
extract_workspace_id(selected_text) ==
    LET parts == split(selected_text, <<"I", "D", ":", " ">>)
    IN  IF Len(parts) < 2 THEN IndexError
        ELSE [raised |-> FALSE, value |-> rstrip_paren(parts[2])]

\* MainWindow.on_workspace_selected: the first workspace with the id (its
\* index in the list, 0 when there is none), or None
index_of(wss, workspace_id) ==
    IF \E k \in 1..Len(wss) : wss[k].id = workspace_id
    THEN CHOOSE k \in 1..Len(wss) :
            /\ wss[k].id = workspace_id
            /\ \A j \in 1..(k - 1) : wss[j].id # workspace_id
    ELSE 0
on_workspace_selected(wss, workspace_id) ==
    IF index_of(wss, workspace_id) = 0 THEN None ELSE Val(wss[index_of(wss, workspace_id)])

\* the k-th entry of a dropdown filled by set_workspaces(wss) is chosen:
\* _on_workspace_selected raises, or hands the id it extracts to
\* MainWindow.on_workspace_selected
choose_in_dropdown(wss, k) ==
    LET workspace_id == extract_workspace_id(display_name(wss[k]))
    IN  [raised |-> workspace_id.raised,
         value  |-> workspace_id.value,
         index  |-> IF workspace_id.raised THEN 0 ELSE index_of(wss, workspace_id.value)]

\* a workspace with its name and id spelled
Spell(workspace) ==
    [id |-> Chars(workspace.id), name |-> Chars(workspace.name), members |-> workspace.members]
SpellAll(wss) == [k \in 1..Len(wss) |-> Spell(wss[k])]

\* MainWindow.on_connect with nothing (or blanks) in the token entry
MgrConnectRejectedLate ==
    /\ app = "mgr" /\ pc = "idle"
    /\ \E text \in env.token_entries :
          /\ strip(text) = <<>>
          /\ client' = set_auth_token(client, strip(text))
    /\ dialog' = "no_token"
    /\ UNCHANGED <<env, call, by_user, app, pc, selected, i, all_user_entries, time_entries,
                   tasks_by_folder, attempts, exported, workspaces, spaces,
                   selected_workspace, selected_space, supplied, last_request>>
MgrConnectRejected ==
    /\ app = "mgr" /\ pc = "idle"
    /\ \E text \in env.token_entries : strip(text) = <<>>
    /\ dialog' = "no_token"
    /\ UNCHANGED <<env, call, by_user, app, pc, selected, i, all_user_entries, time_entries,
                   tasks_by_folder, attempts, exported, session, last_request>>

\* MainWindow.on_connect with the stripped text of the token entry.  A failed
\* request ends it with the "Connection error" dialog; so does the IndexError
\* of set_workspaces, which chooses the first entry of a dropdown it filled
MgrConnect ==
    /\ app = "mgr" /\ pc = "idle"
    /\ \E text \in env.token_entries :
          LET auth_token == strip(text)
          IN  /\ auth_token # <<>>
              /\ client' = set_auth_token(client, auth_token)
              /\ supplied' = auth_token
              /\ last_request' = Val(client'.headers)
              /\ \E r \in TeamResponses :
                    LET chosen == IF r.ok /\ r.teams # <<>>
                                  THEN choose_in_dropdown(SpellAll(r.teams), 1)
                                  ELSE [raised |-> FALSE, value |-> <<>>, index |-> 0]
                    IN  /\ workspaces' = IF r.ok THEN r.teams ELSE workspaces
                        /\ selected_workspace' =
                              IF ~r.ok \/ r.teams = <<>> \/ chosen.raised
                              THEN selected_workspace
                              ELSE IF chosen.index = 0 THEN None
                              ELSE Val(r.teams[chosen.index])
                        /\ dialog' = IF ~r.ok THEN "connection_error"
                                     ELSE IF chosen.raised THEN "index_error"
                                     ELSE "none"
              /\ UNCHANGED <<spaces, selected_space>>
    /\ UNCHANGED <<env, call, by_user, app, pc, selected, i, all_user_entries, time_entries,
                   tasks_by_folder, attempts, exported>>

\* MainWindow.on_workspace_selected called with the id of a listed workspace
MgrSelectWorkspace ==
    /\ app = "mgr" /\ pc = "idle"
    /\ \E k \in 1..Len(workspaces) :
          selected_workspace' = on_workspace_selected(workspaces, workspaces[k].id)
    /\ dialog' = "none"
    /\ UNCHANGED <<env, call, by_user, app, pc, selected, i, all_user_entries, time_entries,
                   tasks_by_folder, attempts, exported, client, workspaces, spaces,
                   selected_space, supplied, last_request>>

\* the checks MainWindow.fetch_time_entries makes before it fetches: the
\* dialog of the first that fails, or "none"
mgr_validate(sel, date_ok) ==
    IF client.auth_token = <<>> THEN "connect_first"
    ELSE IF selected_workspace = None THEN "no_workspace"
    ELSE IF sel = <<>> THEN "no_users"
    ELSE IF ~date_ok THEN "invalid_date"
    ELSE "none"

\* MainWindow.fetch_time_entries ended by one of its checks
MgrFetchRejected ==
    /\ app = "mgr" /\ pc = "idle"
    /\ env.adverse
    /\ \E empty \in BOOLEAN, date_ok \in BOOLEAN :
          LET sel == IF empty \/ selected_workspace = None THEN <<>>
                     ELSE selected_workspace[1].members
          IN  /\ mgr_validate(sel, date_ok) # "none"
              /\ dialog' = mgr_validate(sel, date_ok)
    /\ UNCHANGED <<env, call, by_user, app, pc, selected, i, all_user_entries, time_entries,
                   tasks_by_folder, attempts, exported, session, last_request>>

\* BaseController.connect with nothing (or blanks) in the token entry
ConnectRejected ==
    /\ app \in {"tt", "tr"} /\ pc = "idle"
    /\ \E text \in env.token_entries : strip(text) = <<>>
    /\ dialog' = "no_token"
    /\ UNCHANGED <<env, call, by_user, app, pc, selected, i, all_user_entries, time_entries,
                   tasks_by_folder, attempts, exported, session, last_request>>

\* the dialog BaseController.connect ends with: the error of a failed
\* request, "No workspaces found", or none
connect_dialog(r) ==
    IF ~r.ok THEN "connection_error"
    ELSE IF r.teams = <<>> THEN "no_workspaces"
    ELSE "none"

\* BaseController.connect with on_connection_success of TimeTrackerController
TtConnect ==
    /\ app = "tt" /\ pc = "idle"
    /\ \E text \in env.token_entries :
          LET auth_token == strip(text)
          IN  /\ auth_token # <<>>
              /\ client' = set_auth_token(client, auth_token)
              /\ supplied' = auth_token
              /\ last_request' = Val(client'.headers)
              /\ \E r \in TeamResponses :
                    /\ workspaces' = IF r.ok THEN r.teams ELSE workspaces
                    /\ selected_workspace' =
                          IF r.ok /\ r.teams # <<>> THEN Val(r.teams[1])
                          ELSE selected_workspace
                    /\ dialog' = connect_dialog(r)
              /\ UNCHANGED <<spaces, selected_space>>
    /\ UNCHANGED <<env, call, by_user, app, pc, selected, i, all_user_entries, time_entries,
                   tasks_by_folder, attempts, exported>>

\* TimeTrackerController.on_workspace_selected for an item of the dropdown
TtSelectWorkspace ==
    /\ app = "tt" /\ pc = "idle"
    /\ \E k \in 1..Len(workspaces) : selected_workspace' = Val(workspaces[k])
    /\ dialog' = "none"
    /\ UNCHANGED <<env, call, by_user, app, pc, selected, i, all_user_entries, time_entries,
                   tasks_by_folder, attempts, exported, client, workspaces, spaces,
                   selected_space, supplied, last_request>>

\* the checks TimeTrackerController.fetch_time_entries makes before it fetches
tt_validate(sel, date_ok) ==
    IF selected_workspace = None THEN "no_workspace"
    ELSE IF sel = <<>> THEN "no_users"
    ELSE IF ~date_ok THEN "invalid_date"
    ELSE "none"

\* TimeTrackerController.fetch_time_entries ended by one of its checks
TtFetchRejectedAfterReset ==
    /\ app = "tt" /\ pc = "idle"
    /\ env.adverse
    /\ time_entries' = EmptyDict
    /\ \E empty \in BOOLEAN, date_ok \in BOOLEAN :
          LET sel == IF empty \/ selected_workspace = None THEN <<>>
                     ELSE selected_workspace[1].members
          IN  /\ tt_validate(sel, date_ok) # "none"
              /\ dialog' = tt_validate(sel, date_ok)
    /\ UNCHANGED <<env, call, by_user, app, pc, selected, i, all_user_entries,
                   tasks_by_folder, attempts, exported, session, last_request>>
TtFetchRejected ==
    /\ app = "tt" /\ pc = "idle"
    /\ env.adverse
    /\ \E empty \in BOOLEAN, date_ok \in BOOLEAN :
          LET sel == IF empty \/ selected_workspace = None THEN <<>>
                     ELSE selected_workspace[1].members
          IN  /\ tt_validate(sel, date_ok) # "none"
              /\ dialog' = tt_validate(sel, date_ok)
    /\ UNCHANGED <<env, call, by_user, app, pc, selected, i, all_user_entries, time_entries,
                   tasks_by_folder, attempts, exported, session, last_request>>

\* BaseController.connect with on_connection_success of TaskReporterController:
\* the spaces of every workspace, the first space selected, its folders loaded
TrConnect ==
    /\ app = "tr" /\ pc = "idle"
    /\ \E text \in env.token_entries :
          LET auth_token == strip(text)
          IN  /\ auth_token # <<>>
              /\ client' = set_auth_token(client, auth_token)
              /\ supplied' = auth_token
              /\ last_request' = Val(client'.headers)
              /\ \E r \in TeamResponses :
                    /\ workspaces' = IF r.ok THEN r.teams ELSE workspaces
                    /\ IF r.ok /\ r.teams # <<>>
                       THEN \E sp \in SpaceResponses :
                               /\ spaces' = sp
                               /\ IF sp # <<>>
                                  THEN /\ selected_space' = Val(sp[1])
                                       /\ \E fs \in FolderResponses :
                                             selected' = fs
                                  ELSE UNCHANGED <<selected_space, selected>>
                       ELSE UNCHANGED <<spaces, selected_space, selected>>
                    /\ dialog' = connect_dialog(r)
              /\ UNCHANGED selected_workspace
    /\ UNCHANGED <<env, call, by_user, app, pc, i, all_user_entries, time_entries,
                   tasks_by_folder, attempts, exported>>

\* the checks TaskReporterController.fetch_all_tasks makes before it fetches
tr_validate ==
    IF selected_space = None THEN "no_space"
    ELSE IF selected = <<>> THEN "no_folders"
    ELSE "none"

\* TaskReporterController.fetch_all_tasks ended by one of its checks
TrFetchRejected ==
    /\ app = "tr" /\ pc = "idle"
    /\ env.adverse
    /\ tr_validate # "none"
    /\ dialog' = tr_validate
    /\ UNCHANGED <<env, call, by_user, app, pc, selected, i, all_user_entries, time_entries,
                   tasks_by_folder, attempts, exported, session, last_request>>

-----------------------------------------------------------------------------
Init ==
    /\ app \in {"mgr", "tt", "tr"}
    /\ env \in Environments
    /\ pc = "idle"
    /\ selected = <<>>
    /\ i = 1
    /\ all_user_entries = EmptyDict
    /\ time_entries = EmptyDict
    /\ tasks_by_folder = EmptyDict
    /\ attempts = <<>>
    /\ exported = NoExport
    /\ by_user = EmptyDict
    /\ client = NewClient
    /\ workspaces = <<>>
    /\ spaces = <<>>
    /\ selected_workspace = None
    /\ selected_space = None
    /\ dialog = "none"
    /\ supplied = <<>>
    /\ last_request = Blank
    /\ call = Blank

Next ==
    \/ MgrConnectRejected
    \/ ConnectRejected
    \/ MgrConnect
    \/ MgrSelectWorkspace
    \/ MgrFetchRejected
    \/ TtConnect
    \/ TtSelectWorkspace
    \/ TtFetchRejected
    \/ TrConnect
    \/ TrFetchRejected
    \/ MgrFetchBegin
    \/ MgrFetchOk
    \/ MgrFetchFail
    \/ MgrExport
    \/ TtFetchBegin
    \/ TtFetchOk
    \/ TtFetchFail
    \/ TtExport
    \/ TrLoadFolders
    \/ TrFetchBegin
    \/ TrFetchOk
    \/ TrFetchFail
    \/ TrExport

Spec == Init /\ [][Next]_vars

-----------------------------------------------------------------------------
(* The ExcelExporter driven on its own, over collections whose keys are any
   names of NamePool *)

\* the longest run of one character in the middle of a name
MaxFill == 32

Rep(c, n) == [k \in 1..n |-> c]
NamePool ==
    { h \o Rep(f, n) \o t :
        h \in {<<>>, <<"/">>}, f \in {"b", "]"}, n \in 0..MaxFill,
        t \in {<<>>, <<"a">>} }
    \cup {SummaryTitle, AllDataTitle}

\* the names a second user is drawn from, next to a user named name
Rivals(name) ==
    { make_safe_sheet_name(name), name \o <<"a">>, SummaryTitle, AllDataTitle, <<"c">> }
        \ {name}

XlEntry ==
    ParseTimeEntry([workspace_name |-> "A", list_name |-> "A", task_name |-> "A",
                    duration_ms |-> 18000])

XlCollections ==
    { << <<n1, e1>> >> : n1 \in NamePool, e1 \in {<<>>, <<XlEntry>>} }
    \cup UNION { { << <<n1, e1>>, <<n2, e2>> >> :
                      n2 \in Rivals(n1), e1 \in {<<>>, <<XlEntry>>}, e2 \in {<<>>, <<XlEntry>>} }
                  : n1 \in NamePool }

XlInit ==
    /\ app = "xl"
    /\ env \in { e \in Environments : e.export_fails }
    /\ pc = "idle"
    /\ selected = <<>>
    /\ i = 1
    /\ all_user_entries = EmptyDict
    /\ time_entries = EmptyDict
    /\ tasks_by_folder = EmptyDict
    /\ attempts = <<>>
    /\ exported = NoExport
    /\ by_user \in XlCollections
    /\ client = NewClient
    /\ workspaces = <<>>
    /\ spaces = <<>>
    /\ selected_workspace = None
    /\ selected_space = None
    /\ dialog = "none"
    /\ supplied = <<>>
    /\ last_request = Blank
    /\ call = Blank

\* the three calls export_excel makes on an ExcelExporter, for by_user
XlExport ==
    /\ app = "xl"
    /\ \E fail \in FailPoints(time_writes(by_user)) :
          exported' = with_exporter(time_writes(by_user), fail)
    /\ UNCHANGED <<dialog, last_request>>
    /\ UNCHANGED <<env, call, by_user, session, app, pc, selected, i, all_user_entries, time_entries,
                   tasks_by_folder, attempts>>

SheetSpec == XlInit /\ [][XlExport]_vars

\* a fetch loop is synchronous code: once begun, its next iteration runs
LoopStep ==
    \/ MgrFetchOk \/ MgrFetchFail
    \/ TtFetchOk \/ TtFetchFail
    \/ TrFetchOk \/ TrFetchFail
FairSpec == Spec /\ WF_vars(LoopStep)

-----------------------------------------------------------------------------
(* Properties of the hierarchical summary *)

\* the last export of MainWindow wrote a workbook
HasHier == app = "mgr" /\ exported.kind = "workbook"

RECURSIVE SumOver(_, _)
SumOver(f, K) ==
    IF K = {} THEN 0
    ELSE LET k == CHOOSE x \in K : TRUE IN f[k] + SumOver(f, K \ {k})

Levels == <<"WORKSPACE", "LIST", "TASK", "MEMBER">>
Depth(row) ==
    IF \E d \in 1..4 : Levels[d] = row.Level
    THEN CHOOSE d \in 1..4 : Levels[d] = row.Level
    ELSE 0
Path(row) == SubSeq(<<row.Workspace, row.List, row.Task, row.Member>>, 1, Depth(row))
IsPrefix(p, q) == Len(p) <= Len(q) /\ SubSeq(q, 1, Len(p)) = p

\* the rows of hs that are the children of row k (one level down, same path)
Children(hs, k) ==
    { j \in 1..Len(hs) : /\ Depth(hs[j]) = Depth(hs[k]) + 1
                         /\ IsPrefix(Path(hs[k]), Path(hs[j])) }
ShownHours(hs) == [k \in 1..Len(hs) |-> IF hs[k].Hours = Blank THEN 0 ELSE hs[k].Hours[1]]
ShownEntries(hs) == [k \in 1..Len(hs) |-> IF hs[k].Entries = Blank THEN 0 ELSE hs[k].Entries[1]]

\* every entry held, with the username it is held under
HeldEntries(aue) ==
    { <<k, j>> : k \in 1..Len(aue), j \in 1..MaxEntries + 1 } \cap
    { x \in (1..Len(aue)) \X (1..MaxEntries + 1) : x[2] <= Len(aue[x[1]][2].entries) }
HeldEntry(aue, x) == aue[x[1]][2].entries[x[2]]
\* the held entries that fall in the group of a header or member row
GroupOf(aue, row) ==
    { x \in HeldEntries(aue) :
        LET e == HeldEntry(aue, x)
            p == <<e.workspace_name, e.list_name, e.task_name, aue[x[1]][1]>>
        IN  IsPrefix(Path(row), p) }
HoursAt(aue)  == [x \in HeldEntries(aue) |-> duration_hours(HeldEntry(aue, x))]
MillisAt(aue) == [x \in HeldEntries(aue) |-> HeldEntry(aue, x).duration_ms]

Rank(name) == CHOOSE k \in 1..Len(LexOrder) : LexOrder[k] = name
WalkedBefore(p, q) ==
    \E n \in 0..Len(p) :
        /\ n <= Len(q)
        /\ SubSeq(p, 1, n) = SubSeq(q, 1, n)
        /\ \/ n = Len(p) /\ n < Len(q)
           \/ n < Len(p) /\ n < Len(q) /\ Rank(p[n + 1]) < Rank(q[n + 1])
-----------------------------------------------------------------------------
(* Properties of the fetch loops *)

Last(s) == s[Len(s)]
Count(s, x) == Cardinality({ k \in 1..Len(s) : s[k] = x })
\* every element of part occurs in whole at least as often as in part
Contains(whole, part) == \A x \in Range(part) : Count(whole, x) >= Count(part, x)

\* the usernames the collection of the running front end holds, and the
\* entries it holds under one of them
HeldNames == IF app = "mgr" THEN DictKeys(all_user_entries) ELSE DictKeys(time_entries)
HeldUnder(username) ==
    IF app = "mgr" THEN EntriesOf(all_user_entries, username)
    ELSE DictGet(time_entries, username)
\* the entries a successful attempt brought, as the collection stores them
Brought(a) ==
    IF app = "mgr" THEN a.entries
    ELSE SetUserInfo(ParseTimeEntries(a.entries), a.item)

\* C6 as claimed: after a fetch loop in which the request of one user failed,
\* the entries of every other user whose request succeeded are all present in
\* the result collection
C6_Original ==
    (app \in {"mgr", "tt"} /\ pc = "idle") =>
        \A f, k \in 1..Len(attempts) :
            (f # k /\ ~attempts[f].ok /\ attempts[k].ok) =>
                /\ attempts[k].item.username \in HeldNames
                /\ Contains(HeldUnder(attempts[k].item.username), Brought(attempts[k]))

\* C7: when the request of a user raises, the collection holds that user's
\* username with an empty list of entries and the loop is at the next user
C7_FailureRecordedLoopGoesOn ==
    (app \in {"mgr", "tt"} /\ attempts # <<>> /\ ~Last(attempts).ok) =>
        /\ Last(attempts).item.username \in HeldNames
        /\ HeldUnder(Last(attempts).item.username) = <<>>
        /\ Len(attempts) < Len(selected) => (pc = "fetching" /\ i = Len(attempts) + 1)

\* the second of three requests has just raised, after a first that brought entries
C7_Witness ==
    /\ app \in {"mgr", "tt"}
    /\ Len(selected) = 3 /\ Len(attempts) = 2
    /\ attempts[1].ok /\ attempts[1].entries # <<>>
    /\ ~attempts[2].ok
    /\ pc = "fetching"

\* C8: a fetch loop that has begun issues one request per selected user
\* (folder), in selection order, whatever fails, and then ends
IssuedInOrder(n) ==
    /\ Len(attempts) = n
    /\ \A k \in 1..n : attempts[k].item = selected[k]
C8_LoopRunsToCompletion ==
    /\ [](pc = "fetching" => (i <= Len(selected) /\ IssuedInOrder(i - 1)))
    /\ [][(pc = "fetching" /\ pc' = "idle") =>
              (Len(attempts') = Len(selected) /\
               \A k \in 1..Len(selected) : attempts'[k].item = selected[k])]_vars
    /\ (pc = "fetching" ~> pc = "idle")

\* a loop over three items has ended although its first and last request failed
C8_Witness ==
    /\ pc = "idle"
    /\ Len(selected) = 3 /\ IssuedInOrder(3)
    /\ ~attempts[1].ok /\ attempts[2].ok /\ ~attempts[3].ok

-----------------------------------------------------------------------------
(* Users without entries *)

\* C9: a user who holds no entry has exactly one row in the per-user summary
\* (get_user_summary, create_time_summary_sheet), with 0 entries and 0 hours
C9_ZeroEntryUserHasRow ==
    /\ HasHier =>
          LET us == exported.user_summary
              aue == all_user_entries
          IN  \A k \in 1..Len(aue) :
                  aue[k][2].entries = <<>> =>
                      LET rows == { j \in 1..Len(us) : us[j].PersonName = aue[k][1] }
                      IN  /\ Cardinality(rows) = 1
                          /\ \A j \in rows : us[j].TotalEntries = 0 /\ us[j].TotalHours = 0
    /\ (app = "tt" /\ exported.kind = "workbook") =>
          LET sm == exported.Summary
          IN  \A k \in 1..Len(time_entries) :
                  time_entries[k][2] = <<>> =>
                      LET rows == { j \in 1..Len(sm) : sm[j].User = time_entries[k][1] }
                      IN  /\ Cardinality(rows) = 1
                          /\ \A j \in rows : sm[j].TotalEntries = 0 /\ sm[j].TotalHours = 0

\* a workbook of a user whose request failed and of a user with two entries
C9_Witness ==
    /\ HasHier
    /\ Len(all_user_entries) = 2
    /\ \E k \in 1..2 : all_user_entries[k][2].error /\ all_user_entries[k][2].entries = <<>>
    /\ \E k \in 1..2 : Len(all_user_entries[k][2].entries) = 2

\* C10 as claimed: a user who holds no entry has one row, with 0 hours and
\* 0 entries, in the hierarchical summary
C10_Original ==
    HasHier =>
        LET hs == exported.hierarchical_summary
            aue == all_user_entries
        IN  \A k \in 1..Len(aue) :
                aue[k][2].entries = <<>> =>
                    LET rows == { j \in 1..Len(hs) : hs[j].Member = aue[k][1] }
                    IN  /\ Cardinality(rows) = 1
                        /\ \A j \in rows : hs[j].Hours = Val(0) /\ hs[j].Entries = Val(0)

\* C10 amended: a user who holds no entry has no row in the hierarchical
\* summary, and when every user holds none the summary is the GRAND TOTAL row
\* alone, with 0 hours and 0 entries
C10_ZeroEntryUserHasNoRow ==
    HasHier =>
        LET hs == exported.hierarchical_summary
            aue == all_user_entries
        IN  /\ \A k \in 1..Len(aue) :
                  aue[k][2].entries = <<>> =>
                      ~ \E j \in 1..Len(hs) : hs[j].Member = aue[k][1]
            /\ (\A k \in 1..Len(aue) : aue[k][2].entries = <<>>) =>
                  hs = << Row("GRAND TOTAL", "", "", "", "", Val(0), Val(0)) >>

\* a workbook of a user without entries and of a user with entries
C10_Witness ==
    /\ HasHier
    /\ \E k \in 1..Len(all_user_entries) : all_user_entries[k][2].entries = <<>>
    /\ \E k \in 1..Len(all_user_entries) : all_user_entries[k][2].entries # <<>>
    /\ Len(exported.hierarchical_summary) > 1

-----------------------------------------------------------------------------
(* Sheet names *)

\* the characters a sheet name may not hold, and a name with each of them
\* replaced by an underscore
Invalid == {"\\", "/", "*", "?", ":", "[", "]"}
Sanitized(name) == [k \in 1..Len(name) |-> IF name[k] \in Invalid THEN "_" ELSE name[k]]
Ellipsis == <<".", ".", ".">>

\* the per-user sheets the last export wrote
UserWrites == { k \in 1..Len(exported.written) : exported.written[k].by = "user" }
Wrote == app \in {"tt", "xl"} /\ exported.kind \in {"workbook", "failed"}

\* C11: a name whose sanitized form is longer than 31 characters gets as its
\* sheet name the first 28 characters of that form followed by "...", which
\* are 31 characters
C11_LongNameTruncated ==
    Wrote =>
        \A k \in UserWrites :
            LET w == exported.written[k]
            IN  Len(Sanitized(w.key)) > 31 =>
                    /\ w.title = SubSeq(Sanitized(w.key), 1, 28) \o Ellipsis
                    /\ Len(w.title) = 31

\* a sheet written for a name of 32 characters with a forbidden one among its first 28
C11_Witness ==
    /\ Wrote
    /\ \E k \in UserWrites :
          /\ Len(exported.written[k].key) = 32
          /\ exported.written[k].key[1] = "/"
          /\ exported.written[k].title[1] = "_"

\* C12: a sheet name has at most 31 characters, none of them one of
\* \ / * ? : [ ] (each was replaced by an underscore), and a name of at most
\* 31 characters without any of them is its own sheet name
C12_SheetNameSafe ==
    Wrote =>
        \A k \in UserWrites :
            LET w == exported.written[k]
            IN  /\ Len(w.title) <= 31
                /\ \A j \in 1..Len(w.title) : w.title[j] \notin Invalid
                /\ \A j \in 1..Len(w.title) :
                      (j <= Len(w.key) /\ w.key[j] \in Invalid /\ (Len(w.key) <= 31 \/ j <= 28))
                          => w.title[j] = "_"
                /\ (Len(w.key) <= 31 /\ \A j \in 1..Len(w.key) : w.key[j] \notin Invalid)
                      => w.title = w.key

\* sheets written for a name made of 31 ']' and for a clean name of 31 characters
C12_Witness ==
    /\ Wrote
    /\ \E k \in UserWrites :
          /\ Len(exported.written[k].key) = 31
          /\ \A j \in 1..31 : exported.written[k].key[j] = "]"
    /\ \E k \in UserWrites :
          /\ Len(exported.written[k].key) = 31
          /\ exported.written[k].title = exported.written[k].key

\* the sheets of the written workbook that hold a per-user write
UserSheets ==
    { t \in DictKeys(exported.sheets) :
        \E j \in 1..Len(DictGet(exported.sheets, t)) : DictGet(exported.sheets, t)[j].by = "user" }

\* C13 as claimed: a workbook has one sheet per user: different users have
\* different sheet names, none of them 'Summary' or 'All Data', and there
\* are as many per-user sheets as users
C13_Original ==
    (app \in {"tt", "xl"} /\ exported.kind = "workbook") =>
        /\ \A j, k \in UserWrites :
              exported.written[j].key # exported.written[k].key
                  => exported.written[j].title # exported.written[k].title
        /\ \A k \in UserWrites : exported.written[k].title \notin {SummaryTitle, AllDataTitle}
        /\ Cardinality(UserSheets) = Cardinality(UserWrites)

-----------------------------------------------------------------------------
(* The fixed sheets of the time-tracking workbook *)

\* the collection the last export was made from
Exported == IF app = "xl" THEN by_user ELSE time_entries
HoldsEntries == \E k \in 1..Len(Exported) : Exported[k][2] # <<>>
WritesBy(by) == { k \in 1..Len(exported.written) : exported.written[k].by = by }
SheetsBy(by) ==
    { t \in DictKeys(exported.sheets) :
        \E j \in 1..Len(DictGet(exported.sheets, t)) : DictGet(exported.sheets, t)[j].by = by }
TimeWorkbook == app \in {"tt", "xl"} /\ exported.kind = "workbook"

-----------------------------------------------------------------------------
(* A failing export *)

\* C18 as claimed: when a sheet-creation step of an export raises, the writer
\* is not closed (saved) onto the target file
C18_Original ==
    (app \in {"tt", "xl"} /\ exported.kind = "failed") => ~exported.closed

-----------------------------------------------------------------------------
(* The session: tokens and rejected requests *)

\* C15: every API request sent carries, in its Authorization header, the
\* last non-empty token handed to a connect; none is sent before one was
C15_RequestsCarryToken ==
    last_request # Blank =>
        /\ supplied # <<>>
        /\ last_request = Val([Authorization |-> Val(supplied)])

\* a request of a fetch loop sent with the token typed as " u"
C15_Witness ==
    /\ pc = "fetching" /\ attempts # <<>>
    /\ supplied = <<"u">>
    /\ last_request = Val([Authorization |-> Val(<<"u">>)])

\* C16: a connect with an empty token ends with the error dialog: it sends
\* no request and leaves the client's token, the workspace list and the
\* selection as they are
C16_EmptyTokenRejected ==
    [][dialog' = "no_token" =>
          UNCHANGED <<client, workspaces, spaces, selected_workspace, selected_space,
                      last_request>>]_vars

\* the dialog is up in a session that was connected with a workspace selected
C16_Witness ==
    /\ dialog = "no_token"
    /\ client.auth_token # <<>>
    /\ workspaces # <<>>
    /\ selected_workspace # None

\* the dialogs of the checks a fetch makes before it fetches
FetchDialogs ==
    {"connect_first", "no_workspace", "no_users", "invalid_date", "no_space", "no_folders"}

\* C17: a fetch ended by one of its checks (nothing selected, no user
\* selected, an invalid date) sends no request and leaves the collection
\* fetched before as it is
C17_RejectedFetchChangesNothing ==
    [][dialog' \in FetchDialogs =>
          UNCHANGED <<all_user_entries, time_entries, tasks_by_folder, last_request, pc>>]_vars

\* a fetch was rejected for its date while entries of a former fetch are held
C17_Witness ==
    /\ dialog = "invalid_date"
    /\ \E k \in 1..Len(time_entries) : time_entries[k][2] # <<>>

\* the collection of the running front end, as <<key, entries or tasks>>
Collection ==
    IF app = "mgr"
    THEN [k \in 1..Len(all_user_entries) |->
             <<all_user_entries[k][1], all_user_entries[k][2].entries>>]
    ELSE IF app = "tt" THEN time_entries ELSE tasks_by_folder
KeyOf(a) == IF app = "tr" THEN a.item.name ELSE a.item.username
StoredBy(a) ==
    IF app = "mgr" THEN a.entries
    ELSE IF app = "tt" THEN SetUserInfo(ParseTimeEntries(a.entries), a.item)
    ELSE SetFolderInfo(a.entries, a.item)
LastFor(key) ==
    attempts[CHOOSE k \in 1..Len(attempts) :
                /\ KeyOf(attempts[k]) = key
                /\ \A j \in (k + 1)..Len(attempts) : KeyOf(attempts[j]) # key]

\* C20: the collection holds exactly the users (folders) of the requests of
\* the latest fetch that passed its checks, each with what its latest
\* request brought, and nothing of a fetch before
C20_FreshOnEachFetch ==
    app \in {"mgr", "tt", "tr"} =>
        /\ DictKeys(Collection) = { KeyOf(attempts[k]) : k \in 1..Len(attempts) }
        /\ \A key \in DictKeys(Collection) :
              DictGet(Collection, key) = StoredBy(LastFor(key))

\* a fetch for one user has ended without entries, in a session where an
\* earlier fetch is possible
C20_Witness ==
    /\ pc = "idle"
    /\ Len(attempts) = 1 /\ attempts[1].ok /\ attempts[1].entries = <<>>
    /\ Collection = << <<KeyOf(attempts[1]), <<>>>> >>

-----------------------------------------------------------------------------
(* Durations *)

\* C19 as claimed: whatever durations the API returns, every hours value of
\* a fetched TimeEntry or Task and every Hours of a summary row is at least 0
C19_Original ==
    /\ app = "tt" =>
          \A k \in 1..Len(time_entries) :
              \A j \in 1..Len(time_entries[k][2]) : time_entries[k][2][j].hours >= 0
    /\ app = "mgr" =>
          \A k \in 1..Len(all_user_entries) :
              \A j \in 1..Len(all_user_entries[k][2].entries) :
                  duration_hours(all_user_entries[k][2].entries[j]) >= 0
    /\ app = "tr" =>
          \A k \in 1..Len(tasks_by_folder) :
              \A j \in 1..Len(tasks_by_folder[k][2]) : hours_spent(tasks_by_folder[k][2][j]) >= 0
    /\ HasHier =>
          \A k \in 1..Len(exported.hierarchical_summary) :
              \/ exported.hierarchical_summary[k].Hours = Blank
              \/ exported.hierarchical_summary[k].Hours[1] >= 0
    /\ (app = "tt" /\ exported.kind = "workbook") =>
          \A k \in 1..Len(exported.Summary) : exported.Summary[k].TotalHours >= 0

-----------------------------------------------------------------------------
(* Failed requests of a folder *)

\* some request made for the folder of attempt a failed: its list request, or
\* the task request of one of its lists
SomeRequestFailed(a) == ~a.ok \/ \E j \in 1..Len(a.lists) : ~a.lists[j].ok

\* C21 as claimed: when a request made for a folder fails (its list request
\* or the task request of one of its lists), the error line is logged, an
\* empty task list is recorded for the folder, and the loop goes on
C21_Original ==
    app = "tr" =>
        \A k \in 1..Len(attempts) :
            SomeRequestFailed(attempts[k]) =>
                /\ attempts[k].logged = "error"
                /\ attempts[k].entries = <<>>
                /\ k = Len(attempts) => DictGet(tasks_by_folder, attempts[k].item.name) = <<>>
                /\ (k = Len(attempts) /\ k < Len(selected)) => (pc = "fetching" /\ i = k + 1)

-----------------------------------------------------------------------------
(* The legacy models and widgets called on their own (models/workspace.py,
   ui/components/workspace_section.py) *)

\* Workspace.get_member_by_username: the loop returns in its first iteration,
\* the member or None; without members the function falls off its end
get_member_by_username(members, username) ==
    IF members = <<>> THEN None
    ELSE IF members[1].username = username THEN Val(members[1]) ELSE None

\* the workspaces the dropdown is filled from: plain names and ids, a name
\* that holds "ID: " itself, an empty id
DropdownNames == { <<"A">>, <<>>, <<"I", "D", ":", " ", "7">>, <<"I", "D", ":", " ">> }
DropdownIds == { <<"7">>, <<"8">>, <<>> }
DropdownWorkspaces == { [id |-> d, name |-> n, members |-> <<>>] : d \in DropdownIds, n \in DropdownNames }

\* the calls made: get_member_by_username on every sublist of Members, and
\* the selection of the item-th workspace of a dropdown of one or two.  A
\* call that has returned holds Val(what it returned) as its result
CallGetMemberOf(ms, u) ==
    [fn |-> "get_member_by_username", members |-> ms, username |-> u,
     workspaces |-> <<>>, item |-> 0, result |-> <<>>]
CallSelectOf(wss, k) ==
    [fn |-> "select_in_dropdown", members |-> <<>>, username |-> "",
     workspaces |-> wss, item |-> k, result |-> <<>>]
CallInputs ==
    { CallGetMemberOf(ms, u) :
        ms \in Selections(Members) \cup { <<>> }, u \in {"ann", "Unknown", "B"} }
    \cup
    { CallSelectOf(<<w>>, 1) : w \in DropdownWorkspaces }
    \cup
    { CallSelectOf(<<w1, w2>>, 2) :
        w1 \in { w \in DropdownWorkspaces : w.name = <<"A">> }, w2 \in DropdownWorkspaces }

CallInit ==
    /\ app = "call"
    /\ env \in { e \in Environments : e.data = MaxEntries }
    /\ pc = "idle"
    /\ selected = <<>>
    /\ i = 1
    /\ all_user_entries = EmptyDict
    /\ time_entries = EmptyDict
    /\ tasks_by_folder = EmptyDict
    /\ attempts = <<>>
    /\ exported = NoExport
    /\ by_user = EmptyDict
    /\ client = NewClient
    /\ workspaces = <<>>
    /\ spaces = <<>>
    /\ selected_workspace = None
    /\ selected_space = None
    /\ dialog = "none"
    /\ supplied = <<>>
    /\ last_request = Blank
    /\ call \in CallInputs

\* workspace.get_member_by_username(username)
CallGetMember ==
    /\ app = "call"
    /\ call.fn = "get_member_by_username" /\ call.result = <<>>
    /\ call' = [call EXCEPT !.result = Val(get_member_by_username(call.members, call.username))]
    /\ UNCHANGED <<app, pc, selected, i, all_user_entries, time_entries, tasks_by_folder,
                   attempts, exported, by_user, session, dialog, last_request, env>>

\* set_workspaces(workspaces), then the item-th entry of the dropdown is
\* chosen: _on_workspace_selected hands the id it extracts to
\* MainWindow.on_workspace_selected, unless the extraction raises
CallSelectInDropdown ==
    /\ app = "call"
    /\ call.fn = "select_in_dropdown" /\ call.result = <<>>
    /\ LET chosen == choose_in_dropdown(call.workspaces, call.item)
       IN  /\ workspaces' = call.workspaces
           /\ call' = [call EXCEPT !.result = Val(chosen)]
           /\ IF chosen.raised
              THEN UNCHANGED selected_workspace
              ELSE selected_workspace' = on_workspace_selected(call.workspaces, chosen.value)
    /\ UNCHANGED <<app, pc, selected, i, all_user_entries, time_entries, tasks_by_folder,
                   attempts, exported, by_user, client, spaces, selected_space, supplied,
                   dialog, last_request, env>>

CallNext == CallGetMember \/ CallSelectInDropdown
CallSpec == CallInit /\ [][CallNext]_vars

\* C22 as claimed: get_member_by_username returns the member with the
\* username whenever the workspace has one, at any position of the list, and
\* None only when it has none
C22_Original ==
    (app = "call" /\ call.fn = "get_member_by_username" /\ call.result # <<>>) =>
        LET ms == call.members
            returned == call.result[1]
        IN  /\ (\E k \in 1..Len(ms) : ms[k].username = call.username) =>
                  (returned # None /\ returned[1].username = call.username
                                   /\ returned[1] \in Range(ms))
            /\ (\A k \in 1..Len(ms) : ms[k].username # call.username) => returned = None

\* C23 as claimed: the id extracted from the display name of the chosen
\* workspace is that workspace's id, and that workspace becomes the selected
\* one
C23_Original ==
    (app = "call" /\ call.fn = "select_in_dropdown" /\ call.result # <<>>) =>
        /\ ~call.result[1].raised
        /\ call.result[1].value = call.workspaces[call.item].id
        /\ selected_workspace # None
        /\ selected_workspace[1].id = call.workspaces[call.item].id

-----------------------------------------------------------------------------
(* Exports and the collection they are made from *)

\* C24: a workbook is written only from a collection that is not empty, so
\* only after a fetch that passed its checks has run; an export asked for
\* before any such fetch ends with the "no data" dialog and writes nothing
C24_WorkbookOnlyFromData ==
    app \in {"mgr", "tt", "tr"} =>
        /\ exported.kind \in {"workbook", "failed"} =>
              (Collection # EmptyDict /\ attempts # <<>> /\ pc = "idle")
        /\ (attempts = <<>> /\ pc = "idle") =>
              (Collection = EmptyDict /\ exported.kind \in {"none", "error"})
        /\ exported.kind = "error" => Collection = EmptyDict
        /\ dialog = "no_data" => exported.kind = "error"

\* a task report written from a collection that holds folders but no task
C24_Witness ==
    /\ app = "tr"
    /\ exported.kind = "workbook"
    /\ Len(tasks_by_folder) = 2
    /\ \A k \in 1..Len(tasks_by_folder) : tasks_by_folder[k][2] = <<>>
    /\ exported.Summary = <<>>

-----------------------------------------------------------------------------
(* A failed connect *)

\* C25 as claimed: a connect that fails (the request fails, or no workspace
\* is returned) leaves the client's token, the workspace list and the
\* selected workspace with its users as they were
C25_Original ==
    [][dialog' \in {"connection_error", "no_workspaces"} =>
          UNCHANGED <<client, workspaces, selected_workspace>>]_vars

-----------------------------------------------------------------------------
(* The workspace of the exported entries *)

\* C26 as claimed: when export_excel writes a workbook, every request that
\* filled the exported collection was made for the workspace selected at the
\* time of the export
C26_Original ==
    [][(TtExport /\ exported'.kind = "workbook") =>
          \A k \in 1..Len(attempts) : attempts[k].team = selected_workspace[1].id]_vars

-----------------------------------------------------------------------------
(* Keys of the collection *)

\* C27 as claimed: after a fetch the collection holds as many entries (tasks)
\* as the successful requests of the fetch returned together, also when two
\* selected users share a username or two folders a name
C27_Original ==
    (app \in {"mgr", "tt", "tr"} /\ pc = "idle") =>
        SumSeq([k \in 1..Len(Collection) |-> Len(Collection[k][2])])
            = SumSeq([k \in 1..Len(attempts) |->
                         IF attempts[k].ok THEN Len(attempts[k].entries) ELSE 0])

-----------------------------------------------------------------------------
(* The calls of _update_summary_totals *)

\* the rows a call changed, and the rows that hold the level and names it
\* was given
ChangedBy(c) == { k \in 1..Len(c.before) : c.after[k] # c.before[k] }
KeyedLike(c) ==
    { k \in 1..Len(c.before) : /\ c.before[k].Level = c.level
                               /\ c.before[k].Workspace = c.workspace
                               /\ c.before[k].List = c.list_name
                               /\ c.before[k].Task = c.task }

-----------------------------------------------------------------------------
(* Entry counts of the hierarchical summary *)

MemberRows(hs) == { k \in 1..Len(hs) : hs[k].Level = "MEMBER" }

-----------------------------------------------------------------------------
(* The hours of a folder in a task report *)

\* C30 as stated: in a written task report the Hours Spent of a folder on the
\* sheet 'Summary' are the hours of the FOLDER TOTAL row of the folder's own
\* sheet, whenever that row is written
C30_Original ==
    (app = "tr" /\ exported.kind = "workbook" /\ "Summary" \in DOMAIN exported) =>
        \A k \in 1..Len(exported.Folders) :
            exported.Folders[k].FolderTotal # Blank =>
                /\ exported.Summary[k].Folder = exported.Folders[k].Folder
                /\ exported.Folders[k].FolderTotal = Val(exported.Summary[k].HoursSpent)

====
